---- MODULE Spec2Model ----
(***************************************************************************)
(* Model of Huawei-TCX-Converter.py: the conversion pipeline of main()     *)
(*   read_file -> filter_data -> process_gps -> file_details               *)
(*   (calculate_lap_stats, merge_data) -> generate_xml -> save_xml.        *)
(*                                                                         *)
(* A data line of the program is the 7-element Python list                 *)
(*   [time, lat, long, alti, dist, hr, cad]                                *)
(* with '' for a blank field.  Here it is the 7-tuple                      *)
(*   <<time, lat, lon, alti, dist, hr, cad>>                               *)
(* whose first element is a number and whose other elements are Blank      *)
(* (<<>>, Python's '') or a one-element tuple <<v>> holding the value.     *)
(* Python index x is index x+1 here.                                       *)
(*                                                                         *)
(* Numbers are integers: a timestamp of the input is the decimal           *)
(* m * 10^e (record [m, e, lo]); lo says that the float is the nearest     *)
(* one below m * 10^e (a rounding error of the division) rather than       *)
(* m * 10^e itself.  Distances are whole metres.                           *)
(***************************************************************************)
EXTENDS Integers, Sequences, FiniteSets, TLC

VARIABLES
    file,            \* the lines of the input file, in order
    pos,             \* number of lines read_file has consumed
    options,         \* the options dict parse_arguments returns
    pc,              \* the stage main() is at
    data,            \* read_file's data dict: gps, alti, hr, cad, lap
    lap_start_stop,  \* read_file's boundary being accumulated
    lap_stats,       \* the list calculate_lap_stats returns
    merged,          \* the list merge_data returns
    xml,             \* the document generate_xml returns
    output,          \* the file save_xml wrote: <<>> or <<document>>
    timestamp,       \* the argument and result of a call of _normalize_timestamp
    applied          \* how often _normalize_timestamp was applied to timestamp

vars == <<file, pos, options, pc, data, lap_start_stop, lap_stats, merged, xml, output,
          timestamp, applied>>

----------------------------------------------------------------------------
(* Bounds of the model *)

MaxLines == 4

\* how often _normalize_timestamp is applied to one timestamp
MaxApply == 2

----------------------------------------------------------------------------
(* Values *)

Blank == <<>>

Val(v) == <<v>>

\* Python truthiness of a field: '' is false, and so are 0 and 0.0
Truthy(f) == f # Blank /\ f[1] # 0

RECURSIVE Pow10(_)
Pow10(n) == IF n <= 0 THEN 1 ELSE 10 * Pow10(n - 1)

RECURSIVE Digits(_)
Digits(m) == IF m < 10 THEN 1 ELSE 1 + Digits(m \div 10)

RECURSIVE IsPow10(_)
IsPow10(m) == IF m = 1 THEN TRUE ELSE IF m % 10 # 0 THEN FALSE ELSE IsPow10(m \div 10)

\* The number a decimal [m, e] denotes, for the decimals that are whole numbers
TimeValue(t) == IF t.e >= 0 THEN t.m * Pow10(t.e) ELSE t.m \div Pow10(0 - t.e)

\* int(float(s)): truncation of a non-negative decimal to a whole number
IntOfFloat(t) ==
    IF t.e >= 0 THEN t ELSE [m |-> t.m \div Pow10(0 - t.e), e |-> 0, lo |-> FALSE]

\* math.log10 is defined for positive numbers only (ValueError otherwise)
Log10Defined(t) == t.m > 0

\* oom = int(math.log10(timestamp)); int() truncates towards zero, so for a
\* timestamp below 1 that is no power of ten it is one above the floor.
Oom(t) ==
    LET k == Digits(t.m) - 1 + t.e
    IN IF k >= 0 \/ IsPow10(t.m) THEN k ELSE k + 1

\* _normalize_timestamp: timestamp / 10^(oom-9), or timestamp / 0.1^(9-oom).
\* The float 0.1 ** k is above 10^-k; for k >= 2 (oom < 8) the quotient is the
\* float below the exact one, for k = 1 and for the integer divisors it is
\* the exact one (on the timestamps of the model).  math.log10 of a float
\* just below a power of ten rounds to the whole number, so Oom reads m, e.
normalize_timestamp(t) ==
    LET oom == Oom(t)
    IN IF oom = 9 THEN t
       ELSE [m |-> t.m, e |-> t.e - (oom - 9), lo |-> t.lo \/ oom < 8]

\* the number of digits of the integer part of a float of 1 or more
IntegerDigits(t) ==
    LET d == Digits(t.m) + t.e
    IN IF t.lo /\ IsPow10(t.m) THEN d - 1 ELSE d

----------------------------------------------------------------------------
(* Lines of the input file.  tp is the tag the line starts with ("other":   *)
(* none of the four tags); malformed: a tagged line whose fields do not     *)
(* parse as numbers.                                                        *)

Line(tp, t, lat, lon, val, malformed) ==
    [tp |-> tp, t |-> t, lat |-> lat, lon |-> lon, val |-> val, malformed |-> malformed]

Sec(m) == [m |-> m, e |-> 0, lo |-> FALSE]

GpsLine(t, lat, lon) == Line("lbs", t, lat, lon, 0, FALSE)

HrLine(t, bpm) == Line("h-r", t, 0, 0, bpm, FALSE)

CadLine(t, rpm) == Line("s-r", t, 0, 0, rpm, FALSE)

AltiLine(t, alti) == Line("alti", t, 0, 0, alti, FALSE)

\* the record the device writes at a pause: lat=90.0;lon=-80.0;...;t=0.0
PauseLine == GpsLine(Sec(0), 90, 0 - 80)

----------------------------------------------------------------------------
(* read_file *)

\* LapUpdate with the stop time overwritten by every sample (no comparison)
LapUpdateLastSeen(lss, t) ==
    LET s == IF lss[1] = 0 THEN t ELSE lss[1]
    IN <<s, t>>

\* lines 127-132: the boundary after an ordinary GPS sample at time t
LapUpdate(lss, t) ==
    LET s == IF lss[1] = 0 THEN t ELSE lss[1]
    IN <<s, IF lss[2] < t THEN t ELSE lss[2]>>

\* line 124: the line goes to the GPS stream (else it is taken for a pause record)
IsLocationSample(line) == line.t.m # 0 /\ line.lat # 90 /\ line.lon # 0 - 80

\* whether parsing the line raises (float()/int() of a non-number, log10 domain)
LineRaises(line) ==
    IF line.tp = "other" THEN FALSE
    ELSE IF line.malformed THEN TRUE
    ELSE IF line.tp = "lbs" THEN IsLocationSample(line) /\ ~Log10Defined(line.t)
    ELSE ~Log10Defined(IntOfFloat(line.t))

\* the holding_list of a sensor line, time normalized
Holding(line) ==
    LET t == IF line.tp = "lbs" THEN TimeValue(normalize_timestamp(line.t))
             ELSE TimeValue(normalize_timestamp(IntOfFloat(line.t)))
    IN CASE line.tp = "lbs"  -> <<t, Val(line.lat), Val(line.lon), Blank, Blank, Blank, Blank>>
         [] line.tp = "h-r"  -> <<t, Blank, Blank, Blank, Blank, Val(line.val), Blank>>
         [] line.tp = "s-r"  -> <<t, Blank, Blank, Blank, Blank, Blank, Val(line.val)>>
         [] line.tp = "alti" -> <<t, Blank, Blank, Val(line.val), Blank, Blank, Blank>>

\* one pass of the loop "for line in f" (lines 110-178); an exception leaves
\* through the bare except of line 189, which exits
ReadLine ==
    /\ pc = "read_file"
    /\ pos < Len(file)
    /\ LET line == file[pos + 1]
       IN IF LineRaises(line)
          THEN /\ pc' = "exit"
               /\ UNCHANGED <<data, lap_start_stop>>
          ELSE /\ pc' = pc
               /\ CASE line.tp = "lbs" /\ IsLocationSample(line) ->
                         /\ data' = [data EXCEPT !.gps = Append(@, Holding(line))]
                         /\ lap_start_stop' = LapUpdate(lap_start_stop, Holding(line)[1])
                    [] line.tp = "lbs" /\ ~IsLocationSample(line) ->
                         /\ data' = [data EXCEPT !.lap = Append(@, lap_start_stop)]
                         /\ lap_start_stop' = <<0, 0>>
                    [] line.tp = "h-r" ->
                         /\ data' = [data EXCEPT !.hr = Append(@, Holding(line))]
                         /\ UNCHANGED lap_start_stop
                    [] line.tp = "s-r" ->
                         /\ data' = [data EXCEPT !.cad = Append(@, Holding(line))]
                         /\ UNCHANGED lap_start_stop
                    [] line.tp = "alti" ->
                         /\ data' = [data EXCEPT !.alti = Append(@, Holding(line))]
                         /\ UNCHANGED lap_start_stop
                    [] OTHER -> UNCHANGED <<data, lap_start_stop>>
    /\ pos' = pos + 1
    /\ UNCHANGED <<timestamp, applied, file, options, lap_stats, merged, xml, output>>

\* sorted(list, key=time): stable
RECURSIVE InsertByTime(_, _)
InsertByTime(s, x) ==
    IF s = <<>> THEN <<x>>
    ELSE IF s[Len(s)][1] <= x[1] THEN Append(s, x)
    ELSE Append(InsertByTime(SubSeq(s, 1, Len(s) - 1), x), s[Len(s)])

RECURSIVE SortByTime(_)
SortByTime(s) ==
    IF s = <<>> THEN <<>>
    ELSE InsertByTime(SortByTime(SubSeq(s, 1, Len(s) - 1)), s[Len(s)])

\* end of the file (lines 183-187): the last boundary is kept if it was
\* started, and the GPS stream is sorted by time
ReadEnd ==
    /\ pc = "read_file"
    /\ pos = Len(file)
    /\ data' = [data EXCEPT
                  !.lap = IF lap_start_stop[1] # 0 THEN Append(@, lap_start_stop) ELSE @,
                  !.gps = SortByTime(@)]
    /\ pc' = "filter_data"
    /\ UNCHANGED <<timestamp, applied, file, pos, options, lap_start_stop, lap_stats, merged, xml, output>>

----------------------------------------------------------------------------
(* filter_data *)

HrMin == 1

HrMax == 254

CadMin == 0

CadMax == 254

AltiMin == -1000

AltiMax == 10000

\* list.remove(x): drops the first element equal to x
RECURSIVE RemoveFirst(_, _)
RemoveFirst(s, x) ==
    IF s = <<>> THEN <<>>
    ELSE IF s[1] = x THEN Tail(s)
    ELSE <<s[1]>> \o RemoveFirst(Tail(s), x)

\* "for line in list: if line[x] < lo or line[x] > hi: list.remove(line)":
\* the iterator is at position i of the list it is removing from
RECURSIVE FilterLoop(_, _, _, _, _)
FilterLoop(list, i, x, lo, hi) ==
    IF i > Len(list) THEN list
    ELSE LET line == list[i]
         IN IF line[x][1] < lo \/ line[x][1] > hi
            THEN FilterLoop(RemoveFirst(list, line), i + 1, x, lo, hi)
            ELSE FilterLoop(list, i + 1, x, lo, hi)

filter_data(d) ==
    [d EXCEPT !.hr   = FilterLoop(@, 1, 6, HrMin, HrMax),
              !.cad  = FilterLoop(@, 1, 7, CadMin, CadMax),
              !.alti = FilterLoop(@, 1, 4, AltiMin, AltiMax)]

\* main, line 739: filter_data runs unless option -f was given
MainFilter ==
    /\ pc = "filter_data"
    /\ data' = IF options.filter THEN filter_data(data) ELSE data
    /\ pc' = "process_gps"
    /\ UNCHANGED <<timestamp, applied, file, pos, options, lap_start_stop, lap_stats, merged, xml, output>>

----------------------------------------------------------------------------
(* process_gps *)

\* _vincenty on the coordinates of the model, in whole metres, as the
\* function of lines 253-320 computes it for these points (0 for equal
\* points, line 277); Blank is the None of line 311, returned when the
\* iteration does not converge, as for the antipodal pair below.
Vincenty(p1, p2) ==
    LET pair == {p1, p2}
    IN CASE p1 = p2 -> Val(0)
         [] pair = {<<10, 5>>, <<10, 6>>}         -> Val(109639)
         [] pair = {<<10, 5>>, <<11, 6>>}         -> Val(155620)
         [] pair = {<<10, 6>>, <<11, 6>>}         -> Val(110611)
         [] pair = {<<10, 5>>, <<0 - 10, 0 - 175>>} -> Blank
         [] pair = {<<10, 6>>, <<0 - 10, 0 - 175>>} -> Val(19926863)
         [] pair = {<<11, 6>>, <<0 - 10, 0 - 175>>} -> Val(19861164)

Coord(entry) == <<entry[2][1], entry[3][1]>>

\* line 332-333 raises TypeError (None + number) when _vincenty returns None
VincentyRaises(gps) ==
    \E n \in 2..Len(gps) : Vincenty(Coord(gps[n]), Coord(gps[n - 1])) = Blank

\* EntryDistance without the previous entry's cumulative distance
EntryDistancePairwise(gps, n) ==
    IF n = 1 THEN 0
    ELSE Vincenty(Coord(gps[n]), Coord(gps[n - 1]))[1]

\* the distance process_gps writes into entry n (lines 327-333), from the
\* list as it is when the loop reaches n
EntryDistance(gps, n) ==
    IF n = 1 THEN 0
    ELSE Vincenty(Coord(gps[n]), Coord(gps[n - 1]))[1] + gps[n - 1][5][1]

\* the loop of line 325 from entry n on
RECURSIVE ProcessFrom(_, _)
ProcessFrom(gps, n) ==
    IF n > Len(gps) THEN gps
    ELSE ProcessFrom([gps EXCEPT ![n][5] = Val(EntryDistance(gps, n))], n + 1)

ProcessGps ==
    /\ pc = "process_gps"
    /\ IF VincentyRaises(data.gps)
       THEN /\ pc' = "exit"
            /\ UNCHANGED data
       ELSE /\ pc' = "file_details"
            /\ data' = [data EXCEPT !.gps = ProcessFrom(@, 1)]
    /\ UNCHANGED <<timestamp, applied, file, pos, options, lap_start_stop, lap_stats, merged, xml, output>>

----------------------------------------------------------------------------
(* file_details: calculate_lap_stats, then merge_data *)

\* the scan of lines 422-427 from GPS entry m on.  start_distance is a local
\* of calculate_lap_stats: Blank while unbound, and it keeps its value from
\* one lap to the next.  The lap gets its distance only in the elif branch.
RECURSIVE ScanGps(_, _, _, _)
ScanGps(gps, m, lap, start_distance) ==
    IF m > Len(gps)
    THEN [lap |-> lap, start_distance |-> start_distance, raised |-> FALSE]
    ELSE IF gps[m][1] = lap[1]
    THEN ScanGps(gps, m + 1, lap, gps[m][5])
    ELSE IF gps[m][1] = lap[2]
    THEN IF start_distance = Blank
         THEN [lap |-> lap, start_distance |-> start_distance, raised |-> TRUE]
         ELSE [lap |-> Append(lap, gps[m][5][1] - start_distance[1]),
               start_distance |-> start_distance, raised |-> FALSE]
    ELSE ScanGps(gps, m + 1, lap, start_distance)

\* the loop of line 418 from lap n on; acc is lap_stats so far
RECURSIVE LapLoop(_, _, _, _, _)
LapLoop(laps, n, gps, start_distance, acc) ==
    IF n > Len(laps) THEN [lap_stats |-> acc, raised |-> FALSE]
    ELSE LET lap_data == Append(laps[n], laps[n][2] - laps[n][1])
             r == ScanGps(gps, 1, lap_data, start_distance)
         IN IF r.raised THEN [lap_stats |-> acc, raised |-> TRUE]
            ELSE LapLoop(laps, n + 1, gps, r.start_distance, Append(acc, r.lap))

calculate_lap_stats(d) == LapLoop(d.lap, 1, d.gps, Blank, <<>>)

\* lines 468-470: the truthy fields of entry are copied over those of prev
CopyBack(prev, entry) ==
    [x \in 1..7 |-> IF x >= 2 /\ Truthy(entry[x]) THEN entry[x] ELSE prev[x]]

\* the loop of line 463, the iterator at position p of the list it removes from
RECURSIVE MergeLoop(_, _)
MergeLoop(d, p) ==
    IF p > Len(d) THEN d
    ELSE IF p = 1 THEN MergeLoop(d, 2)
    ELSE IF d[p][1] = d[p - 1][1]
    THEN MergeLoop(RemoveFirst([d EXCEPT ![p - 1] = CopyBack(d[p - 1], d[p])], d[p]), p + 1)
    ELSE MergeLoop(d, p + 1)

merge_data(d) == MergeLoop(SortByTime(d.gps \o d.alti \o d.hr \o d.cad), 1)

\* calculate_lap_stats exits when it raises; file_details exits when the
\* merged list is empty (data[0] of line 374 raises IndexError)
FileDetails ==
    /\ pc = "file_details"
    /\ LET stats == calculate_lap_stats(data)
           m == merge_data(data)
       IN IF stats.raised
          THEN /\ pc' = "exit"
               /\ UNCHANGED <<lap_stats, merged>>
          ELSE /\ lap_stats' = stats.lap_stats
               /\ merged' = m
               /\ pc' = IF m = <<>> THEN "exit" ELSE "generate_xml"
    /\ UNCHANGED <<timestamp, applied, file, pos, options, data, lap_start_stop, xml, output>>

----------------------------------------------------------------------------
(* generate_xml, save_xml *)

\* the Trackpoint element of a line (lines 543-588).  str() of a field is
\* the empty string exactly for a blank field, so a zero value is emitted.
Trackpoint(line, sport) ==
    [Time           |-> line[1],
     Position       |-> IF line[2] # Blank THEN <<line[2][1], line[3][1]>> ELSE Blank,
     AltitudeMeters |-> line[4],
     DistanceMeters |-> IF line[2] # Blank THEN line[5] ELSE Blank,
     HeartRateBpm   |-> line[6],
     Cadence        |-> IF line[7] # Blank /\ sport = "Biking" THEN line[7] ELSE Blank,
     RunCadence     |-> IF line[7] # Blank /\ sport = "Running" THEN line[7] ELSE Blank]

\* the lines of the merged list that line 540 does not skip for the lap
RECURSIVE Track(_, _, _)
Track(d, stats, sport) ==
    IF d = <<>> THEN <<>>
    ELSE IF d[1][1] < stats[1] \/ d[1][1] > stats[2] THEN Track(Tail(d), stats, sport)
    ELSE <<Trackpoint(d[1], sport)>> \o Track(Tail(d), stats, sport)

\* the Lap element (lines 521-588); stats[3] of line 526 raises IndexError for
\* a lap record without distance, and the element stays as built until then
LapElement(d, stats, sport) ==
    IF Len(stats) < 4
    THEN [StartTime |-> stats[1], TotalTimeSeconds |-> Val(stats[3]),
          DistanceMeters |-> Blank, Track |-> <<>>, raised |-> TRUE]
    ELSE [StartTime |-> stats[1], TotalTimeSeconds |-> Val(stats[3]),
          DistanceMeters |-> Val(stats[4]), Track |-> Track(d, stats, sport),
          raised |-> FALSE]

\* the loop of line 520 from lap n on: it ends at the first Lap that raises
RECURSIVE LapElements(_, _, _, _)
LapElements(d, stats, n, sport) ==
    IF n > Len(stats) THEN <<>>
    ELSE LET lap == LapElement(d, stats[n], sport)
         IN IF lap.raised THEN <<lap>>
            ELSE <<lap>> \o LapElements(d, stats, n + 1, sport)

\* the element generate_xml returns: its bare except (line 631) only prints,
\* so after an exception the tree built so far is returned.  complete: the
\* try block ran to its end (the Creator and Author elements are there).
generate_xml(d, stats, sport) ==
    IF stats = <<>>
    THEN [Sport |-> sport, Id |-> Blank, Laps |-> <<>>, complete |-> FALSE]
    ELSE LET laps == LapElements(d, stats, 1, sport)
         IN [Sport |-> sport, Id |-> Val(stats[1][1]), Laps |-> laps,
             complete |-> \A i \in 1..Len(laps) : ~laps[i].raised]

GenerateXml ==
    /\ pc = "generate_xml"
    /\ xml' = <<generate_xml(merged, lap_stats, options.sport)>>
    /\ pc' = "save_xml"
    /\ UNCHANGED <<timestamp, applied, file, pos, options, data, lap_start_stop, lap_stats, merged, output>>

\* save_xml writes whatever element it is given to <input_file>.tcx
SaveXml ==
    /\ pc = "save_xml"
    /\ output' = xml
    /\ pc' = "done"
    /\ UNCHANGED <<timestamp, applied, file, pos, options, data, lap_start_stop, lap_stats, merged, xml>>

----------------------------------------------------------------------------
(* The program *)

SeqsUpTo(S, n) == UNION {[1..k -> S] : k \in 0..n}

\* the state when main() calls read_file on a file of lines drawn from the
\* set lines, under options drawn from opts
InitWith(lines, opts) ==
    /\ file \in SeqsUpTo(lines, MaxLines)
    /\ options \in opts
    /\ pos = 0
    /\ pc = "read_file"
    /\ data = [gps |-> <<>>, alti |-> <<>>, hr |-> <<>>, cad |-> <<>>, lap |-> <<>>]
    /\ lap_start_stop = <<0, 0>>
    /\ lap_stats = <<>>
    /\ merged = <<>>
    /\ xml = <<>>
    /\ output = <<>>
    /\ timestamp = Sec(0)
    /\ applied = 0

Next ==
    \/ ReadLine
    \/ ReadEnd
    \/ MainFilter
    \/ ProcessGps
    \/ FileDetails
    \/ GenerateXml
    \/ SaveXml

\* timestamps of the inputs: seconds, and the same instants in milliseconds
T0 == Sec(1500000000)

T1 == Sec(1500000010)

T2 == [m |-> 1500000020, e |-> 3, lo |-> FALSE]

DefaultOptions == {[filter |-> TRUE, sport |-> "Running"]}

\* GPS tracks over three instants and two places, a place antipodal to the
\* first, pause records, a heart-rate line
TrackLines ==
    {GpsLine(t, 10, lon) : t \in {T0, T1, T2}, lon \in {5, 6}}
        \cup {GpsLine(T1, 0 - 10, 0 - 175), PauseLine, HrLine(T1, 80)}

Init == InitWith(TrackLines, DefaultOptions)

Spec == Init /\ [][Next]_vars

\* GPS lines with each part of the pause signature (t=0, lat=90, lon=-80)
\* present or absent
PauseLines ==
    {GpsLine(t, lat, lon) : t \in {Sec(0), T0, T1}, lat \in {90, 10}, lon \in {0 - 80, 5}}

InitPause == InitWith(PauseLines, DefaultOptions)

SpecPause == InitPause /\ [][Next]_vars

\* samples of all four streams at shared timestamps, zero values among them
MergeLines ==
    {GpsLine(T0, 10, 5), AltiLine(T0, 100), HrLine(T0, 80), CadLine(T0, 90),
     CadLine(T0, 0), AltiLine(T1, 0), HrLine(T1, 70)}

InitMerge == InitWith(MergeLines, DefaultOptions)

SpecMerge == InitMerge /\ [][Next]_vars

\* sensor lines in and out of the ranges filter_data keeps, with and without -f
FilterLines ==
    {HrLine(T0, 0), HrLine(T1, 255), HrLine(T0, 80),
     CadLine(T0, 0 - 1), CadLine(T1, 255), CadLine(T0, 90),
     AltiLine(T0, 20000), AltiLine(T1, 0 - 2000), AltiLine(T0, 100)}

InitFilter == InitWith(FilterLines, {[filter |-> f, sport |-> "Running"] : f \in BOOLEAN})

SpecFilter == InitFilter /\ [][Next]_vars

\* the sports parse_arguments can configure (lines 35, 43, 45)
Sports == {"Running", "Biking", "Swimming"}

\* a GPS track of two samples, cadence and heart-rate lines at its instants,
\* a pause record
SportLines ==
    {GpsLine(T0, 10, 5), GpsLine(T1, 10, 6), CadLine(T0, 90), CadLine(T1, 85),
     HrLine(T0, 80), PauseLine}

InitSport == InitWith(SportLines, {[filter |-> TRUE, sport |-> s] : s \in Sports})

SpecSport == InitSport /\ [][Next]_vars

\* a call of _normalize_timestamp on timestamp (lines 91-96); math.log10
\* raises ValueError for a timestamp that is not positive
NormalizeTimestamp ==
    /\ pc = "normalize_timestamp"
    /\ applied < MaxApply
    /\ IF Log10Defined(timestamp)
       THEN /\ timestamp' = normalize_timestamp(timestamp)
            /\ applied' = applied + 1
            /\ pc' = pc
       ELSE /\ pc' = "exit"
            /\ UNCHANGED <<timestamp, applied>>
    /\ UNCHANGED <<file, pos, options, data, lap_start_stop, lap_stats, merged, xml, output>>

\* timestamps of every order of magnitude from 10^-3 to 10^13, and a negative one
NormalizeInputs ==
    {[m |-> m, e |-> e, lo |-> FALSE] : m \in {1, 2, 5, 7, 15, 12345}, e \in (0 - 7)..9}
        \cup {[m |-> 0 - 5, e |-> 0, lo |-> FALSE]}

\* the state at a call of _normalize_timestamp
InitNormalize ==
    /\ timestamp \in NormalizeInputs
    /\ applied = 0
    /\ pc = "normalize_timestamp"
    /\ file = <<>>
    /\ options \in DefaultOptions
    /\ pos = 0
    /\ data = [gps |-> <<>>, alti |-> <<>>, hr |-> <<>>, cad |-> <<>>, lap |-> <<>>]
    /\ lap_start_stop = <<0, 0>>
    /\ lap_stats = <<>>
    /\ merged = <<>>
    /\ xml = <<>>
    /\ output = <<>>

NextNormalize == NormalizeTimestamp

SpecNormalize == InitNormalize /\ [][NextNormalize]_vars

----------------------------------------------------------------------------
(* Properties *)

Range(s) == {s[i] : i \in 1..Len(s)}

\* the stages after file_details returned
AfterFileDetails == pc \in {"generate_xml", "save_xml", "done"}

\* the stages after process_gps returned
AfterProcessGps == pc = "file_details" \/ AfterFileDetails

\* the stages after main's filter step
AfterFilter == pc = "process_gps" \/ AfterProcessGps

\* the pause-marker signature of the specification
IsPauseMarker(line) == line.tp = "lbs" /\ line.t.m = 0 /\ line.lat = 90 /\ line.lon = 0 - 80

IsOrdinaryGps(line) == line.tp = "lbs" /\ ~IsPauseMarker(line)

\* C1: while read_file reads, the laps closed so far are exactly the GPS lines
\* read with time = 0 and lat = 90 and lon = -80, and every other GPS line read
\* is in the GPS stream (it closed no lap).
C1_PauseIffSignature ==
    pc = "read_file" =>
        /\ Len(data.lap) = Cardinality({i \in 1..pos : IsPauseMarker(file[i])})
        /\ Len(data.gps) = Cardinality({i \in 1..pos : IsOrdinaryGps(file[i])})

\* C2: the list merge_data returns is in ascending timestamp order and no two
\* of its records share a timestamp.
C2_MergedDistinctAscending ==
    AfterFileDetails =>
        \A i \in 1..Len(merged) : \A j \in 1..Len(merged) :
            i < j => merged[i][1] < merged[j][1]

\* the samples merge_data is given
Samples == Range(data.gps) \cup Range(data.alti) \cup Range(data.hr) \cup Range(data.cad)

\* C3: for every sample given to merge_data there is a merged record with its
\* timestamp, and every merged record with that timestamp carries each field
\* the sample carries (a zero value included).
C3_MergedIsUnion ==
    AfterFileDetails =>
        \A s \in Samples :
            /\ \E r \in Range(merged) : r[1] = s[1]
            /\ \A r \in Range(merged) :
                   r[1] = s[1] => \A x \in 2..7 : s[x] # Blank => r[x] # Blank

\* C4: every lap whose start and stop times are timestamps of GPS samples has
\* duration stop - start and a distance, the cumulative distance at its stop
\* time minus the cumulative distance at its start time.
C4_LapHasDistance ==
    AfterFileDetails =>
        \A n \in 1..Len(lap_stats) :
            LET lap == lap_stats[n]
            IN (\E g \in Range(data.gps) : g[1] = lap[1]) /\ (\E g \in Range(data.gps) : g[1] = lap[2])
               => /\ Len(lap) = 4
                  /\ lap[3] = lap[2] - lap[1]
                  /\ \E a \in Range(data.gps) : \E b \in Range(data.gps) :
                         a[1] = lap[1] /\ b[1] = lap[2] /\ lap[4] = b[5][1] - a[5][1]

\* C5: an output file is written only when every stage completed without
\* failure: the document save_xml wrote is one generate_xml built to its end.
C5_NoOutputAfterFailure ==
    output # <<>> => output[1].complete

\* C6: after filter_data returned, no heart-rate sample is below 1 or above
\* 254, no cadence sample below 0 or above 254, no altitude sample below
\* -1000 or above 10000.
C6_FilteredInRange ==
    AfterFilter /\ options.filter =>
        /\ \A r \in Range(data.hr) : r[6][1] >= 1 /\ r[6][1] <= 254
        /\ \A r \in Range(data.cad) : r[7][1] >= 0 /\ r[7][1] <= 254
        /\ \A r \in Range(data.alti) : r[4][1] >= 0 - 1000 /\ r[4][1] <= 10000

\* the timestamps read_file stores for lines i..j of the file
StoredTimes(i, j) == {Holding(file[k])[1] : k \in i..j}

\* the file is a non-empty group of ordinary GPS lines, a pause marker at
\* line p, and a second non-empty group of ordinary GPS lines
TwoGroups(p) ==
    /\ 1 < p /\ p < Len(file)
    /\ IsPauseMarker(file[p])
    /\ \A k \in 1..Len(file) : k # p => IsOrdinaryGps(file[k])

\* the lap is the lap of the GPS lines i..j: start and stop are timestamps of
\* the group, and its distance is the cumulative distance at the stop time
\* minus the one at the start time
LapOfGroup(lap, i, j) ==
    /\ lap[1] \in StoredTimes(i, j)
    /\ lap[2] \in StoredTimes(i, j)
    /\ Len(lap) = 4
    /\ \E a \in Range(data.gps) : \E b \in Range(data.gps) :
           a[1] = lap[1] /\ b[1] = lap[2] /\ lap[4] = b[5][1] - a[5][1]

\* C7: a group of ordinary GPS lines, a pause marker and a second group give
\* exactly two laps, lap i with start and stop time from group i and with the
\* distance between the cumulative distances at these two times.
C7_PauseSplitsTwoLaps ==
    AfterFileDetails =>
        \A p \in 1..Len(file) :
            TwoGroups(p) =>
                /\ Len(lap_stats) = 2
                /\ LapOfGroup(lap_stats[1], 1, p - 1)
                /\ LapOfGroup(lap_stats[2], p + 1, Len(file))

\* the file holds only ordinary GPS lines, at strictly increasing timestamps
IncreasingGps ==
    /\ Len(file) >= 1
    /\ \A k \in 1..Len(file) : IsOrdinaryGps(file[k]) /\ file[k].t.m > 0
    /\ \A k \in 1..(Len(file) - 1) : Holding(file[k])[1] < Holding(file[k + 1])[1]

\* C8: GPS lines at strictly increasing timestamps and no pause marker give
\* exactly one lap, from the first timestamp to the last, whose distance is
\* the last GPS point's cumulative distance.
C8_OneLapSpansAll ==
    AfterFileDetails /\ IncreasingGps =>
        /\ Len(lap_stats) = 1
        /\ lap_stats[1][1] = Holding(file[1])[1]
        /\ lap_stats[1][2] = Holding(file[Len(file)])[1]
        /\ Len(lap_stats[1]) = 4
        /\ lap_stats[1][4] = data.gps[Len(data.gps)][5][1]

\* C9: every boundary in the lap list, and the boundary being accumulated,
\* has stop_time >= start_time.
C9_StopNotBeforeStart ==
    /\ lap_start_stop[2] >= lap_start_stop[1]
    /\ \A lap \in Range(data.lap) : lap[2] >= lap[1]
    /\ \A lap \in Range(lap_stats) : lap[2] >= lap[1]

\* C9 happens: a lap was closed by a pause, and the open boundary, which
\* spans two GPS samples, has just seen a GPS sample earlier than its start
C9_OutOfOrderBoundary ==
    /\ pc = "read_file"
    /\ data.lap # <<>>
    /\ lap_start_stop[1] # 0
    /\ lap_start_stop[2] > lap_start_stop[1]
    /\ IsLocationSample(file[pos]) /\ file[pos].tp = "lbs"
    /\ Holding(file[pos])[1] < lap_start_stop[1]

\* C10: after process_gps the first GPS sample's cumulative distance is 0,
\* each later one is the previous sample's plus the pairwise distance of the
\* two, and the series does not decrease.
C10_CumulativeDistance ==
    AfterProcessGps =>
        \A n \in 1..Len(data.gps) :
            IF n = 1 THEN data.gps[1][5] = Val(0)
            ELSE /\ data.gps[n][5] # Blank
                 /\ data.gps[n][5][1] =
                        data.gps[n - 1][5][1]
                            + Vincenty(Coord(data.gps[n]), Coord(data.gps[n - 1]))[1]
                 /\ data.gps[n][5][1] >= data.gps[n - 1][5][1]

\* C10 happens: process_gps returned on three or more time-sorted GPS samples
\* whose cumulative distance grows twice
C10_GrowingTrack ==
    /\ pc = "file_details"
    /\ Len(data.gps) >= 3
    /\ \A n \in 1..(Len(data.gps) - 1) : data.gps[n][1] <= data.gps[n + 1][1]
    /\ data.gps[2][5][1] > 0
    /\ data.gps[3][5][1] > data.gps[2][5][1]

\* C11: the result of _normalize_timestamp on a timestamp other than 0 has
\* exactly 10 integer digits, and normalizing it again does not change it.
C11_TenDigitsIdempotent ==
    applied = 1 =>
        /\ IntegerDigits(timestamp) = 10
        /\ normalize_timestamp(timestamp) = timestamp

\* the time of a GPS line as read_file would store it
SampleTime(line) == IF line.t.m = 0 THEN 0 ELSE Holding(line)[1]

\* the segment builder of the specification after the first i lines: the
\* current boundary and the lap list
RECURSIVE Segments(_)
Segments(i) ==
    IF i = 0 THEN [cur |-> <<0, 0>>, laps |-> <<>>]
    ELSE LET prev == Segments(i - 1)
             line == file[i]
             t    == SampleTime(line)
         IN IF IsPauseMarker(line)
            THEN [cur |-> <<0, 0>>, laps |-> Append(prev.laps, prev.cur)]
            ELSE IF IsOrdinaryGps(line)
            THEN [cur |-> <<IF prev.cur[1] = 0 THEN t ELSE prev.cur[1],
                            IF prev.cur[2] < t THEN t ELSE prev.cur[2]>>,
                  laps |-> prev.laps]
            ELSE prev

\* C12: while read_file reads, the current boundary and the lap list are those
\* of the segment builder (an ordinary GPS sample sets start_time if it is 0
\* and raises stop_time to the maximum, a pause marker appends the boundary
\* and resets it); at the end of the input the boundary is appended if and
\* only if its start_time is not 0.
C12_SegmentBuilder ==
    /\ pc = "read_file" =>
           /\ lap_start_stop = Segments(pos).cur
           /\ data.lap = Segments(pos).laps
    /\ pc = "filter_data" =>
           data.lap = IF Segments(Len(file)).cur[1] # 0
                      THEN Append(Segments(Len(file)).laps, Segments(Len(file)).cur)
                      ELSE Segments(Len(file)).laps

\* the records of d with a timestamp inside [start, stop], in the order of d
RECURSIVE RecordsInRange(_, _, _)
RecordsInRange(d, start, stop) ==
    IF d = <<>> THEN <<>>
    ELSE IF start <= d[1][1] /\ d[1][1] <= stop
    THEN <<d[1]>> \o RecordsInRange(Tail(d), start, stop)
    ELSE RecordsInRange(Tail(d), start, stop)

\* their timestamps
TimesInRange(d, start, stop) ==
    LET recs == RecordsInRange(d, start, stop)
    IN [i \in 1..Len(recs) |-> recs[i][1]]

\* the timestamps of the trackpoints of a track, in document order
TrackTimes(track) == [i \in 1..Len(track) |-> track[i].Time]

\* C13: in the written document every lap has, as its trackpoints, exactly the
\* merged records with start_time <= t <= stop_time of that lap, in merged
\* order; there is no other lap, so a record in no lap's range is in no lap.
C13_TrackIsLapRange ==
    pc = "done" =>
        /\ Len(output[1].Laps) = Len(lap_stats)
        /\ \A n \in 1..Len(lap_stats) :
               TrackTimes(output[1].Laps[n].Track)
                   = TimesInRange(merged, lap_stats[n][1], lap_stats[n][2])

\* C14: in the written document, for every sport, a trackpoint carries a
\* cadence value exactly when its merged record does: in the Cadence element
\* for Biking, in the run-specific extension element for every other sport.
C14_CadenceForEverySport ==
    pc = "done" =>
        \A n \in 1..Len(output[1].Laps) :
            LET track == output[1].Laps[n].Track
                recs  == RecordsInRange(merged, lap_stats[n][1], lap_stats[n][2])
            IN \A k \in 1..Len(track) :
                   IF options.sport = "Biking"
                   THEN track[k].Cadence = recs[k][7] /\ track[k].RunCadence = Blank
                   ELSE track[k].RunCadence = recs[k][7] /\ track[k].Cadence = Blank

\* C15: whenever the conversion completes, every GPS sample read_file stored
\* (in whatever time order the GPS lines came) has its timestamp inside the
\* range of at least one lap and is a trackpoint with a position of the
\* written document.
C15_NoGpsPointLost ==
    (pc = "done" /\ output[1].complete) =>
        \A g \in Range(data.gps) :
            /\ \E n \in 1..Len(lap_stats) :
                   lap_stats[n][1] <= g[1] /\ g[1] <= lap_stats[n][2]
            /\ \E n \in 1..Len(output[1].Laps) :
                   \E k \in 1..Len(output[1].Laps[n].Track) :
                       /\ output[1].Laps[n].Track[k].Time = g[1]
                       /\ output[1].Laps[n].Track[k].Position = <<g[2][1], g[3][1]>>

====
